---- MODULE Spec2Model ----
(***************************************************************************)
(* A model of @nivalis/iban: the country registry, the structure compiler, *)
(* the ISO 13616 / ISO 7064 checksum functions, the Specification class    *)
(* with its lazily compiled matcher, and the public functions built on     *)
(* them.                                                                   *)
(*                                                                         *)
(* JavaScript strings are TLA+ strings; offsets in the source are 0-based  *)
(* and are shifted to the 1-based SubSeq here.  A JavaScript value handed  *)
(* to a public function is a record [type, val], so that the non-string    *)
(* arguments the predicates guard against can be passed too.               *)
(***************************************************************************)
EXTENDS Integers, Sequences, FiniteSets, TLC

VARIABLES
    cachedRegex,    \* country key -> the Specification instance's cachedRegex field
    call,           \* the public function called last, with its arguments
    outcome,        \* what that call did: the value returned or the error thrown
    remainder,      \* iso7064Mod9710's local `remainder`, while its loop is stepped
    block           \* iso7064Mod9710's local `block`

vars == <<cachedRegex, call, outcome, remainder, block>>

---------------------------------------------------------------------------
(* Characters and strings                                                  *)

DIGITS == "0123456789"
UPPER == "ABCDEFGHIJKLMNOPQRSTUVWXYZ"
LOWER == "abcdefghijklmnopqrstuvwxyz"
\* Characters that are neither digits nor letters, as they occur in printed
\* IBANs and BBANs: the blank (code point 32) and the hyphen (code point 45).
SEPARATORS == " -"
\* Strings here hold ASCII only.  Two characters outside ASCII are admitted,
\* each written with an ASCII character of no other use: U+0149 (the small
\* letter n preceded by apostrophe), whose upper case is the two characters
\* U+02BC U+004E, is written as the tilde; U+02BC (the modifier letter
\* apostrophe), the first of those two, is written as the apostrophe.
N_APOSTROPHE == "~"
MODIFIER_APOSTROPHE == "'"
ALPHABET == DIGITS \o UPPER \o LOWER \o SEPARATORS \o N_APOSTROPHE \o MODIFIER_APOSTROPHE

charAt(s, i) == SubSeq(s, i, i)

CharsOf(s) == {charAt(s, i) : i \in 1..Len(s)}

IndexIn(s, c) == CHOOSE i \in 1..Len(s) : charAt(s, i) = c

Digit == CharsOf(DIGITS)
UpperLetter == CharsOf(UPPER)
LowerLetter == CharsOf(LOWER)
Char == CharsOf(ALPHABET)

DigitValue == [c \in Digit |-> IndexIn(DIGITS, c) - 1]

Min(a, b) == IF a < b THEN a ELSE b

Max(a, b) == IF a < b THEN b ELSE a

\* String.prototype.slice(from) and slice(from, to) for offsets >= 0.
sliceFrom(s, from) == SubSeq(s, Min(from, Len(s)) + 1, Len(s))

slice(s, from, to) == SubSeq(s, Min(from, Len(s)) + 1, Min(to, Len(s)))

\* String.prototype.slice(-n): the last n characters (all of s when shorter).
sliceLast(s, n) == SubSeq(s, Max(Len(s) - n, 0) + 1, Len(s))

\* String.prototype.codePointAt(0) of a one-character string.
CodePointTable ==
    [c \in Char |->
        IF c \in Digit THEN 47 + IndexIn(DIGITS, c)
        ELSE IF c \in UpperLetter THEN 64 + IndexIn(UPPER, c)
        ELSE IF c \in LowerLetter THEN 96 + IndexIn(LOWER, c)
        ELSE IF c = " " THEN 32
        ELSE IF c = "-" THEN 45
        ELSE IF c = N_APOSTROPHE THEN 329 ELSE 700]

codePointAt(c) == CodePointTable[c]

\* The upper case of one character: one character, but for U+0149, whose
\* upper case is U+02BC followed by N.
UpperTable ==
    [c \in Char |->
        IF c \in LowerLetter THEN charAt(UPPER, IndexIn(LOWER, c))
        ELSE IF c = N_APOSTROPHE THEN MODIFIER_APOSTROPHE \o "N"
        ELSE c]

\* String.prototype.toUpperCase, from the i-th character on.
RECURSIVE toUpperCaseFrom(_, _)
toUpperCaseFrom(s, i) ==
    IF i > Len(s) THEN "" ELSE UpperTable[charAt(s, i)] \o toUpperCaseFrom(s, i + 1)

toUpperCase(s) == toUpperCaseFrom(s, 1)

\* Number.prototype.toString and template interpolation of an integer.
RECURSIVE toString(_)
toString(n) ==
    IF n < 0 THEN "-" \o toString(0 - n)
    ELSE IF n < 10 THEN charAt(DIGITS, n + 1)
    ELSE toString(n \div 10) \o charAt(DIGITS, (n % 10) + 1)

\* NaN, the result of Number.parseInt on a string that holds no number: a
\* value below every integer that the strings parsed here can hold.
NaN == 0 - 2^30

\* The value of the digits of s from the i-th character up to the first
\* character that is no digit, written after the number acc.
RECURSIVE DigitPrefixValue(_, _, _)
DigitPrefixValue(s, i, acc) ==
    IF i > Len(s) \/ charAt(s, i) \notin Digit THEN acc
    ELSE DigitPrefixValue(s, i + 1, 10 * acc + DigitValue[charAt(s, i)])

\* The offset (1-based) of the first character of s from the i-th on that
\* is no white space.
RECURSIVE SkipWhiteSpace(_, _)
SkipWhiteSpace(s, i) ==
    IF i > Len(s) \/ charAt(s, i) # " " THEN i ELSE SkipWhiteSpace(s, i + 1)

\* Number.parseInt(s, 10): leading white space is skipped, a minus sign is
\* taken, then the value of the longest run of decimal digits; NaN when that
\* run is empty.
parseInt(s) ==
    LET i == SkipWhiteSpace(s, 1)
        negative == i <= Len(s) /\ charAt(s, i) = "-"
        j == IF negative THEN i + 1 ELSE i
    IN  IF j > Len(s) \/ charAt(s, j) \notin Digit THEN NaN
        ELSE IF negative THEN 0 - DigitPrefixValue(s, j, 0)
        ELSE DigitPrefixValue(s, j, 0)

\* n % 97 for a number n: NaN for NaN, else the remainder with the sign of n.
mod97(n) ==
    IF n = NaN THEN NaN
    ELSE IF n < 0 THEN 0 - ((0 - n) % 97)
    ELSE n % 97

\* `${n % 97}`: NaN interpolates as "NaN".
interpolateMod97(n) == IF n = NaN THEN "NaN" ELSE toString(mod97(n))

---------------------------------------------------------------------------
(* src/utils.ts                                                            *)

A_CODE_POINT_AT == 65

\* NON_ALPHANUM = /[^\da-z]/gi: whether the character c matches.
NonAlphanumChars == Char \ (Digit \cup LowerLetter \cup UpperLetter)

NON_ALPHANUM(c) == c \in NonAlphanumChars

\* JavaScript values as the public functions receive them.
Str(s) == [type |-> "string", val |-> s]

isString(value) == value.type = "string"

\* An argument the caller leaves out.
Omitted == [type |-> "undefined", val |-> ""]

---------------------------------------------------------------------------
(* The Specification class: its constructor, and the country registry      *)

\* The constructor stores its four arguments; cachedRegex starts undefined
\* and is kept in the variable cachedRegex, one entry per instance.
Specification(countryCode, length, structure, example) ==
    [countryCode |-> countryCode, length |-> length,
     structure |-> structure, example |-> example]

COUNTRIES ==
    "AD" :> Specification("AD", 24, "F04F04A12", "AD1200012030200359100100")
    @@ "AE" :> Specification("AE", 23, "F03F16", "AE070331234567890123456")
    @@ "AL" :> Specification("AL", 28, "F08A16", "AL47212110090000000235698741")
    @@ "AT" :> Specification("AT", 20, "F05F11", "AT611904300234573201")
    @@ "AZ" :> Specification("AZ", 28, "U04A20", "AZ21NABZ00000000137010001944")
    @@ "BA" :> Specification("BA", 20, "F03F03F08F02", "BA391290079401028494")
    @@ "BE" :> Specification("BE", 16, "F03F07F02", "BE68539007547034")
    @@ "BG" :> Specification("BG", 22, "U04F04F02A08", "BG80BNBG96611020345678")
    @@ "BH" :> Specification("BH", 22, "U04A14", "BH67BMAG00001299123456")
    @@ "BR" :> Specification("BR", 29, "F08F05F10U01A01", "BR9700360305000010009795493P1")
    @@ "BY" :> Specification("BY", 28, "A04F04A16", "BY13NBRB3600900000002Z00AB00")
    @@ "CH" :> Specification("CH", 21, "F05A12", "CH9300762011623852957")
    @@ "CR" :> Specification("CR", 22, "F04F14", "CR72012300000171549015")
    @@ "CY" :> Specification("CY", 28, "F03F05A16", "CY17002001280000001200527600")
    @@ "CZ" :> Specification("CZ", 24, "F04F06F10", "CZ6508000000192000145399")
    @@ "DE" :> Specification("DE", 22, "F08F10", "DE89370400440532013000")
    @@ "DK" :> Specification("DK", 18, "F04F09F01", "DK5000400440116243")
    @@ "DO" :> Specification("DO", 28, "U04F20", "DO28BAGR00000001212453611324")
    @@ "EE" :> Specification("EE", 20, "F02F02F11F01", "EE382200221020145685")
    @@ "EG" :> Specification("EG", 29, "F04F04F17", "EG800002000156789012345180002")
    @@ "ES" :> Specification("ES", 24, "F04F04F01F01F10", "ES9121000418450200051332")
    @@ "FI" :> Specification("FI", 18, "F06F07F01", "FI2112345600000785")
    @@ "FO" :> Specification("FO", 18, "F04F09F01", "FO6264600001631634")
    @@ "FR" :> Specification("FR", 27, "F05F05A11F02", "FR1420041010050500013M02606")
    @@ "GB" :> Specification("GB", 22, "U04F06F08", "GB29NWBK60161331926819")
    @@ "GE" :> Specification("GE", 22, "U02F16", "GE29NB0000000101904917")
    @@ "GI" :> Specification("GI", 23, "U04A15", "GI75NWBK000000007099453")
    @@ "GL" :> Specification("GL", 18, "F04F09F01", "GL8964710001000206")
    @@ "GR" :> Specification("GR", 27, "F03F04A16", "GR1601101250000000012300695")
    @@ "GT" :> Specification("GT", 28, "A04A20", "GT82TRAJ01020000001210029690")
    @@ "HR" :> Specification("HR", 21, "F07F10", "HR1210010051863000160")
    @@ "HU" :> Specification("HU", 28, "F03F04F01F15F01", "HU42117730161111101800000000")
    @@ "IE" :> Specification("IE", 22, "U04F06F08", "IE29AIBK93115212345678")
    @@ "IL" :> Specification("IL", 23, "F03F03F13", "IL620108000000099999999")
    @@ "IS" :> Specification("IS", 26, "F04F02F06F10", "IS140159260076545510730339")
    @@ "IT" :> Specification("IT", 27, "U01F05F05A12", "IT60X0542811101000000123456")
    @@ "IQ" :> Specification("IQ", 23, "U04F03A12", "IQ98NBIQ850123456789012")
    @@ "JO" :> Specification("JO", 30, "A04F22", "JO15AAAA1234567890123456789012")
    @@ "KW" :> Specification("KW", 30, "U04A22", "KW81CBKU0000000000001234560101")
    @@ "KZ" :> Specification("KZ", 20, "F03A13", "KZ86125KZT5004100100")
    @@ "LB" :> Specification("LB", 28, "F04A20", "LB62099900000001001901229114")
    @@ "LC" :> Specification("LC", 32, "U04F24", "LC07HEMM000100010012001200013015")
    @@ "LI" :> Specification("LI", 21, "F05A12", "LI21088100002324013AA")
    @@ "LT" :> Specification("LT", 20, "F05F11", "LT121000011101001000")
    @@ "LU" :> Specification("LU", 20, "F03A13", "LU280019400644750000")
    @@ "MC" :> Specification("MC", 27, "F05F05A11F02", "MC5811222000010123456789030")
    @@ "MD" :> Specification("MD", 24, "U02A18", "MD24AG000225100013104168")
    @@ "ME" :> Specification("ME", 22, "F03F13F02", "ME25505000012345678951")
    @@ "MK" :> Specification("MK", 19, "F03A10F02", "MK07250120000058984")
    @@ "MR" :> Specification("MR", 27, "F05F05F11F02", "MR1300020001010000123456753")
    @@ "MT" :> Specification("MT", 31, "U04F05A18", "MT84MALT011000012345MTLCAST001S")
    @@ "MU" :> Specification("MU", 30, "U04F02F02F12F03U03", "MU17BOMM0101101030300200000MUR")
    @@ "NL" :> Specification("NL", 18, "U04F10", "NL91ABNA0417164300")
    @@ "NO" :> Specification("NO", 15, "F04F06F01", "NO9386011117947")
    @@ "PK" :> Specification("PK", 24, "U04A16", "PK36SCBL0000001123456702")
    @@ "PL" :> Specification("PL", 28, "F08F16", "PL61109010140000071219812874")
    @@ "PS" :> Specification("PS", 29, "U04A21", "PS92PALS000000000400123456702")
    @@ "PT" :> Specification("PT", 25, "F04F04F11F02", "PT50000201231234567890154")
    @@ "QA" :> Specification("QA", 29, "U04A21", "QA30AAAA123456789012345678901")
    @@ "RO" :> Specification("RO", 24, "U04A16", "RO49AAAA1B31007593840000")
    @@ "RS" :> Specification("RS", 22, "F03F13F02", "RS35260005601001611379")
    @@ "SA" :> Specification("SA", 24, "F02A18", "SA0380000000608010167519")
    @@ "SC" :> Specification("SC", 31, "U04F04F16U03", "SC18SSCB11010000000000001497USD")
    @@ "SE" :> Specification("SE", 24, "F03F16F01", "SE4550000000058398257466")
    @@ "SI" :> Specification("SI", 19, "F05F08F02", "SI56263300012039086")
    @@ "SK" :> Specification("SK", 24, "F04F06F10", "SK3112000000198742637541")
    @@ "SM" :> Specification("SM", 27, "U01F05F05A12", "SM86U0322509800000000270100")
    @@ "ST" :> Specification("ST", 25, "F08F11F02", "ST68000100010051845310112")
    @@ "SV" :> Specification("SV", 28, "U04F20", "SV62CENR00000000000000700025")
    @@ "TL" :> Specification("TL", 23, "F03F14F02", "TL380080012345678910157")
    @@ "TN" :> Specification("TN", 24, "F02F03F13F02", "TN5910006035183598478831")
    @@ "TR" :> Specification("TR", 26, "F05F01A16", "TR330006100519786457841326")
    @@ "UA" :> Specification("UA", 29, "F25", "UA511234567890123456789012345")
    @@ "VA" :> Specification("VA", 22, "F18", "VA59001123000012345678")
    @@ "VG" :> Specification("VG", 24, "U04F16", "VG96VPVG0000012345678901")
    @@ "XK" :> Specification("XK", 20, "F04F10F02", "XK051212012345678906")
    @@ "AO" :> Specification("AO", 25, "F21", "AO69123456789012345678901")
    @@ "BF" :> Specification("BF", 27, "F23", "BF2312345678901234567890123")
    @@ "BI" :> Specification("BI", 16, "F12", "BI41123456789012")
    @@ "BJ" :> Specification("BJ", 28, "F24", "BJ39123456789012345678901234")
    @@ "CI" :> Specification("CI", 28, "U02F22", "CI70CI1234567890123456789012")
    @@ "CM" :> Specification("CM", 27, "F23", "CM9012345678901234567890123")
    @@ "CV" :> Specification("CV", 25, "F21", "CV30123456789012345678901")
    @@ "DZ" :> Specification("DZ", 24, "F20", "DZ8612345678901234567890")
    @@ "IR" :> Specification("IR", 26, "F22", "IR861234568790123456789012")
    @@ "MG" :> Specification("MG", 27, "F23", "MG1812345678901234567890123")
    @@ "ML" :> Specification("ML", 28, "U01F23", "ML15A12345678901234567890123")
    @@ "MZ" :> Specification("MZ", 25, "F21", "MZ25123456789012345678901")
    @@ "SN" :> Specification("SN", 28, "U01F23", "SN52A12345678901234567890123")
    @@ "GF" :> Specification("GF", 27, "F05F05A11F02", "GF121234512345123456789AB13")
    @@ "GP" :> Specification("GP", 27, "F05F05A11F02", "GP791234512345123456789AB13")
    @@ "MQ" :> Specification("MQ", 27, "F05F05A11F02", "MQ221234512345123456789AB13")
    @@ "RE" :> Specification("RE", 27, "F05F05A11F02", "RE131234512345123456789AB13")
    @@ "PF" :> Specification("PF", 27, "F05F05A11F02", "PF281234512345123456789AB13")
    @@ "TF" :> Specification("TF", 27, "F05F05A11F02", "TF891234512345123456789AB13")
    @@ "YT" :> Specification("YT", 27, "F05F05A11F02", "YT021234512345123456789AB13")
    @@ "NC" :> Specification("NC", 27, "F05F05A11F02", "NC551234512345123456789AB13")
    @@ "BL" :> Specification("BL", 27, "F05F05A11F02", "BL391234512345123456789AB13")
    @@ "MF" :> Specification("MF", 27, "F05F05A11F02", "MF551234512345123456789AB13")
    @@ "PM" :> Specification("PM", 27, "F05F05A11F02", "PM071234512345123456789AB13")
    @@ "WF" :> Specification("WF", 27, "F05F05A11F02", "WF621234512345123456789AB13")

CountryCodes == DOMAIN COUNTRIES

\* How a call completes: with a value, or with a thrown error.
Return(v) == [kind |-> "return", value |-> v]

Throw(message) == [kind |-> "throw", error |-> message]

---------------------------------------------------------------------------
(* The structure compiler, and the RegExp objects it builds                *)

\* The value of a field never assigned.
undefined == [kind |-> "undefined"]

\* new RegExp(`^${regex.join('')}$`), regex[i] = `([${format}]{${repeats}})`:
\* the anchored sequence of capturing groups, kept as (format, repeats) pairs.
RegExp(groups) == [kind |-> "RegExp", groups |-> groups]

\* structure.match(/.{3}/g): the consecutive 3-character blocks, a trailing
\* rest of 1 or 2 characters left out; null (no block) below 3 characters.
matchBlocks(structure) ==
    [i \in 1..(Len(structure) \div 3) |-> slice(structure, 3 * (i - 1), 3 * i)]

\* The switch over block[0]; no default case, so any other code leaves
\* `format` undefined, which the template interpolates as "undefined".
formatOf(pattern) ==
    CASE pattern = "A" -> "0-9A-Za-z"
      [] pattern = "B" -> "0-9A-Z"
      [] pattern = "C" -> "A-Za-z"
      [] pattern = "F" -> "0-9"
      [] pattern = "L" -> "a-z"
      [] pattern = "U" -> "A-Z"
      [] pattern = "W" -> "0-9a-z"
      [] OTHER -> "undefined"

parseStructure(structure) ==
    LET blocks == matchBlocks(structure)
    IN  IF Len(blocks) = 0
        THEN Throw("Something went wrong while parsing the structure")
        ELSE Return(RegExp([i \in 1..Len(blocks) |->
                 [format |-> formatOf(charAt(blocks[i], 1)),
                  repeats |-> parseInt(sliceFrom(blocks[i], 1))]]))

\* The characters the bracket expression [format] admits; [undefined] is the
\* class of the letters of that word.
ClassChars(format) ==
    CASE format = "0-9A-Za-z" -> Digit \cup UpperLetter \cup LowerLetter
      [] format = "0-9A-Z" -> Digit \cup UpperLetter
      [] format = "A-Za-z" -> UpperLetter \cup LowerLetter
      [] format = "0-9" -> Digit
      [] format = "a-z" -> LowerLetter
      [] format = "A-Z" -> UpperLetter
      [] format = "0-9a-z" -> Digit \cup LowerLetter
      [] OTHER -> CharsOf("undefi")

\* {${repeats}} as the template writes it, and whether the pattern syntax
\* takes it for a quantifier: {n} repeats the class n times; {NaN} and {-n}
\* are no quantifiers but literal characters behind one class character.
braces(g) == "{" \o (IF g.repeats = NaN THEN "NaN" ELSE toString(g.repeats)) \o "}"

isQuantifier(g) == g.repeats # NaN /\ g.repeats >= 0

\* The number of characters a group consumes.
GroupLen(g) == IF isQuantifier(g) THEN g.repeats ELSE 1 + Len(braces(g))

GroupMatches(g, s) ==
    IF isQuantifier(g)
    THEN Len(s) = g.repeats /\ \A i \in 1..Len(s) : charAt(s, i) \in ClassChars(g.format)
    ELSE /\ Len(s) = 1 + Len(braces(g))
         /\ charAt(s, 1) \in ClassChars(g.format)
         /\ sliceFrom(s, 1) = braces(g)

\* The offset at which the groups after the first n start.
RECURSIVE GroupsLen(_, _)
GroupsLen(groups, n) ==
    IF n = 0 THEN 0 ELSE GroupsLen(groups, n - 1) + GroupLen(groups[n])

Capture(re, s, i) == slice(s, GroupsLen(re.groups, i - 1), GroupsLen(re.groups, i))

\* RegExp.prototype.test: ^ and $ anchor the groups to the whole string.
test(re, s) ==
    /\ Len(s) = GroupsLen(re.groups, Len(re.groups))
    /\ \A i \in 1..Len(re.groups) : GroupMatches(re.groups[i], Capture(re, s, i))

\* What exec returns when the string does not match.
null == <<>>

\* RegExp.prototype.exec: null, or the match array: the whole match, then
\* one capture per group.
exec(re, s) ==
    IF test(re, s)
    THEN [i \in 1..(Len(re.groups) + 1) |-> IF i = 1 THEN s ELSE Capture(re, s, i - 1)]
    ELSE null

\* Array.prototype.join
RECURSIVE join(_, _)
join(parts, separator) ==
    IF Len(parts) = 0 THEN ""
    ELSE IF Len(parts) = 1 THEN parts[1]
    ELSE parts[1] \o separator \o join(Tail(parts), separator)

---------------------------------------------------------------------------
(* The checksum functions                                                  *)

\* The block size of the reduction: remainder.slice(0, 9).
BlockSize == 9

\* The loop body splicing one character too far behind the block.
iso7064Mod9710Body_SkipsOne(rem) ==
    LET blk == slice(rem, 0, BlockSize)
    IN  [block |-> blk,
         remainder |-> interpolateMod97(parseInt(blk)) \o sliceFrom(rem, Len(blk) + 1)]

\* One pass through the body of iso7064Mod9710's while loop, from the value
\* of `remainder` before it: the new values of `block` and `remainder`.
iso7064Mod9710Body(rem) ==
    LET blk == slice(rem, 0, BlockSize)
    IN  [block |-> blk,
         remainder |-> interpolateMod97(parseInt(blk)) \o sliceFrom(rem, Len(blk))]

\* The statement after the loop: Number.parseInt(remainder, 10) % 97.
iso7064Mod9710Return(rem) == mod97(parseInt(rem))

RECURSIVE iso7064Mod9710(_)
iso7064Mod9710(iban) ==
    IF Len(iban) > 2
    THEN iso7064Mod9710(iso7064Mod9710Body(iban).remainder)
    ELSE iso7064Mod9710Return(iban)

\* The replacement callback counting from A = 11.
replaceLetter_FromEleven(match) == toString(codePointAt(match) - A_CODE_POINT_AT + 11)

\* match => (match.codePointAt(0) - A_CODE_POINT_AT + 10).toString()
replaceLetter(match) == toString(codePointAt(match) - A_CODE_POINT_AT + 10)

\* val.replaceAll(/[A-Z]/g, replaceLetter), from the i-th character on.
RECURSIVE replaceLettersFrom(_, _)
replaceLettersFrom(val, i) ==
    IF i > Len(val) THEN ""
    ELSE LET c == charAt(val, i)
         IN  (IF c \in UpperLetter THEN replaceLetter(c) ELSE c)
             \o replaceLettersFrom(val, i + 1)

iso13616Prepare(iban) ==
    LET val == toUpperCase(iban)
    IN  replaceLettersFrom(sliceFrom(val, 4) \o slice(val, 0, 4), 1)

---------------------------------------------------------------------------
(* The methods of Specification.  `self` is the instance's constructor     *)
(* record and `cached` its cachedRegex field before the call; each method  *)
(* gives its completion and the field's value after the call.              *)

Done(completion, cached) == [completion |-> completion, cachedRegex |-> cached]

\* regex() compiling without assigning the field.
Specification_regex_Uncached(self, cached) ==
    LET parsed == parseStructure(self.structure)
    IN  IF parsed.kind = "throw" THEN Done(parsed, cached)
        ELSE Done(Return(parsed.value), cached)

\* The private regex(): compiles on the first use, then returns the field.
Specification_regex(self, cached) ==
    IF cached.kind = "undefined"
    THEN LET parsed == parseStructure(self.structure)
         IN  IF parsed.kind = "throw" THEN Done(parsed, cached)
             ELSE Done(Return(parsed.value), parsed.value)
    ELSE Done(Return(cached), cached)

\* isValid without its checksum condition.
Specification_isValid_NoChecksum(self, cached, iban) ==
    IF self.length = Len(iban) /\ self.countryCode = slice(iban, 0, 2)
    THEN LET re == Specification_regex(self, cached)
         IN  IF re.completion.kind = "throw" THEN re
             ELSE Done(Return(test(re.completion.value, sliceFrom(iban, 4))),
                       re.cachedRegex)
    ELSE Done(Return(FALSE), cached)

\* && evaluates left to right: regex() runs only once length and country
\* code agree, the checksum only once the structure has matched.
Specification_isValid(self, cached, iban) ==
    IF self.length = Len(iban) /\ self.countryCode = slice(iban, 0, 2)
    THEN LET re == Specification_regex(self, cached)
         IN  IF re.completion.kind = "throw" THEN re
             ELSE Done(Return(/\ test(re.completion.value, sliceFrom(iban, 4))
                              /\ iso7064Mod9710(iso13616Prepare(iban)) = 1),
                       re.cachedRegex)
    ELSE Done(Return(FALSE), cached)

\* toBBAN joining the whole match array, without its slice(1).
Specification_toBBAN_WholeMatch(self, cached, iban, separator) ==
    LET re == Specification_regex(self, cached)
    IN  IF re.completion.kind = "throw" THEN re
        ELSE LET regexMatch == exec(re.completion.value, sliceFrom(iban, 4))
             IN  IF regexMatch = null
                 THEN Done(Throw("Invalid IBAN"), re.cachedRegex)
                 ELSE Done(Return(join(regexMatch, separator)), re.cachedRegex)

Specification_toBBAN(self, cached, iban, separator) ==
    LET re == Specification_regex(self, cached)
    IN  IF re.completion.kind = "throw" THEN re
        ELSE LET regexMatch == exec(re.completion.value, sliceFrom(iban, 4))
             IN  IF regexMatch = null
                 THEN Done(Throw("Invalid IBAN"), re.cachedRegex)
                 ELSE Done(Return(join(Tail(regexMatch), separator)), re.cachedRegex)

Specification_isValidBBAN(self, cached, bban) ==
    IF self.length - 4 = Len(bban)
    THEN LET re == Specification_regex(self, cached)
         IN  IF re.completion.kind = "throw" THEN re
             ELSE Done(Return(test(re.completion.value, bban)), re.cachedRegex)
    ELSE Done(Return(FALSE), cached)

\* The check digits without the padding: `${98 - remainder}`.
checkDigitOf_NoPad(rem) == toString(98 - rem)

\* `0${98 - remainder}`.slice(-2)
checkDigitOf(rem) == sliceLast("0" \o toString(98 - rem), 2)

\* fromBBAN without its isValidBBAN guard.
Specification_fromBBAN_Unchecked(self, cached, bban) ==
    LET rem == iso7064Mod9710(iso13616Prepare(self.countryCode \o "00" \o bban))
    IN  Done(Return(self.countryCode \o checkDigitOf(rem) \o bban), cached)

Specification_fromBBAN(self, cached, bban) ==
    LET valid == Specification_isValidBBAN(self, cached, bban)
    IN  IF valid.completion.kind = "throw" THEN valid
        ELSE IF ~valid.completion.value
        THEN Done(Throw("Invalid BBAN"), valid.cachedRegex)
        ELSE LET rem == iso7064Mod9710(
                            iso13616Prepare(self.countryCode \o "00" \o bban))
             IN  Done(Return(self.countryCode \o checkDigitOf(rem) \o bban),
                      valid.cachedRegex)

---------------------------------------------------------------------------
(* The public functions.  `cache` is the whole of cachedRegex before the   *)
(* call; each gives its completion and cachedRegex after the call.         *)

\* COUNTRIES[countryCode], or the error.  An instance is named by its key:
\* its constructor record is COUNTRIES[key], its cache cachedRegex[key].
getCountry(countryCode) ==
    IF countryCode \in DOMAIN COUNTRIES THEN Return(countryCode)
    ELSE Throw("No country with code " \o countryCode)

\* iban.replaceAll(NON_ALPHANUM, ''), from the i-th character on.
RECURSIVE stripNonAlphanumFrom(_, _)
stripNonAlphanumFrom(s, i) ==
    IF i > Len(s) THEN ""
    ELSE (IF NON_ALPHANUM(charAt(s, i)) THEN "" ELSE charAt(s, i))
         \o stripNonAlphanumFrom(s, i + 1)

stripNonAlphanum(s) == stripNonAlphanumFrom(s, 1)

\* electronicFormat without its toUpperCase().
electronicFormat_NoUpperCase(iban) == stripNonAlphanum(iban)

electronicFormat(iban) == toUpperCase(stripNonAlphanum(iban))

\* A method call on the instance `key`, with its cache entry written back.
OnInstance(cache, key, done) ==
    Done(done.completion, [cache EXCEPT ![key] = done.cachedRegex])

\* What calling replaceAll on a value that is no string throws.
NotAString == Throw("TypeError: iban.replaceAll is not a function")

\* The catch clause turns an error of either call in the try block into false.
isValid(cache, iban) ==
    IF ~isString(iban) THEN Done(Return(FALSE), cache)
    ELSE LET ibanFormatted == electronicFormat(iban.val)
             countryStructure == getCountry(slice(ibanFormatted, 0, 2))
         IN  IF countryStructure.kind = "throw" THEN Done(Return(FALSE), cache)
             ELSE LET key == countryStructure.value
                      done == OnInstance(cache, key,
                                  Specification_isValid(COUNTRIES[key], cache[key],
                                                        ibanFormatted))
                  IN  IF done.completion.kind = "throw"
                      THEN Done(Return(FALSE), done.cachedRegex)
                      ELSE done

\* `separator: string = ' '`: an argument left out takes the default.
toBBAN(cache, iban, separatorArg) ==
    IF ~isString(iban) THEN Done(NotAString, cache)
    ELSE LET separator == IF separatorArg = Omitted THEN " " ELSE separatorArg.val
             ibanFormatted == electronicFormat(iban.val)
             countryStructure == getCountry(slice(ibanFormatted, 0, 2))
         IN  IF countryStructure.kind = "throw" THEN Done(countryStructure, cache)
             ELSE LET key == countryStructure.value
                  IN  OnInstance(cache, key,
                          Specification_toBBAN(COUNTRIES[key], cache[key],
                                               ibanFormatted, separator))

\* The arguments are evaluated after getCountry(countryCode) has returned.
fromBBAN(cache, countryCode, bban) ==
    LET countryStructure == getCountry(countryCode)
    IN  IF countryStructure.kind = "throw" THEN Done(countryStructure, cache)
        ELSE IF ~isString(bban) THEN Done(NotAString, cache)
        ELSE LET key == countryStructure.value
             IN  OnInstance(cache, key,
                     Specification_fromBBAN(COUNTRIES[key], cache[key],
                                            electronicFormat(bban.val)))

isValidBBAN(cache, countryCode, bban) ==
    IF ~isString(bban) THEN Done(Return(FALSE), cache)
    ELSE LET countryStructure == getCountry(countryCode)
         IN  IF countryStructure.kind = "throw" THEN Done(countryStructure, cache)
             ELSE LET key == countryStructure.value
                  IN  OnInstance(cache, key,
                          Specification_isValidBBAN(COUNTRIES[key], cache[key],
                                                    electronicFormat(bban.val)))

---------------------------------------------------------------------------
(* The arguments the calls are made with                                   *)

\* s with its i-th character (1-based) replaced by c.
Substitute(s, i, c) == slice(s, 0, i - 1) \o c \o sliceFrom(s, i)

RECURSIVE toLowerCase(_)
toLowerCase(s) ==
    IF s = "" THEN ""
    ELSE LET c == charAt(s, 1)
         IN  (IF c \in UpperLetter THEN charAt(LOWER, IndexIn(UPPER, c)) ELSE c)
             \o toLowerCase(sliceFrom(s, 1))

\* printFormat's grouping: the separator after every 4 characters but the last.
RECURSIVE Grouped(_, _)
Grouped(s, separator) ==
    IF Len(s) <= 4 THEN s
    ELSE slice(s, 0, 4) \o separator \o Grouped(sliceFrom(s, 4), separator)

Examples == {COUNTRIES[k].example : k \in CountryCodes}

\* Values that are no strings: 1 and {}.
NonStrings == {[type |-> "number", val |-> "1"], [type |-> "object", val |-> "{}"]}

\* The countries whose instances the repeated calls of Spec address, in the
\* order in which NumCountries admits them.
CalledCountries == <<"BE", "NL", "MT", "GB">>
NumCountries == 2

\* The characters written over a character of an example, in the order in
\* which NumEditChars admits them.
EDITS == "0Aa 9-Zz12345678"
NumEditChars == 4

EditChars == {charAt(EDITS, i) : i \in 1..Min(NumEditChars, Len(EDITS))}

\* Variants of one example: as registered, printed, in lower case, with its
\* last character or a check digit changed, with check digits 00, a letter
\* in its BBAN, one character more, an unregistered country code, nothing.
Variants(e) ==
    {e, Grouped(e, " "), toLowerCase(e),
     Substitute(e, Len(e), "1"), Substitute(e, 4, "0"),
     slice(e, 0, 2) \o "00" \o sliceFrom(e, 4),
     Substitute(e, Len(e) - 1, "a"), e \o "0",
     "ZZ" \o sliceFrom(e, 2), ""}

CalledExamples ==
    {COUNTRIES[CalledCountries[i]].example :
        i \in 1..Min(NumCountries, Len(CalledCountries))}

Ibans == UNION {Variants(e) : e \in CalledExamples}

Bbans == {sliceFrom(s, 4) : s \in Ibans} \cup {Grouped(sliceFrom(e, 4), "-") : e \in CalledExamples}

Codes == {slice(e, 0, 2) : e \in CalledExamples} \cup {"ZZ"}

Separators == {Str("-"), Str(""), Omitted}

IbanArgs == {Str(s) : s \in Ibans} \cup NonStrings

BbanArgs == {Str(s) : s \in Bbans} \cup NonStrings

\* The arguments of a first call: an example with any one character
\* overwritten by an edit character, or with any two check code characters,
\* digits or the letters of CHECK_CODE_LETTERS, at offsets 2 and 3.
CheckDigitEdit(e, a, b) == slice(e, 0, 2) \o a \o b \o sliceFrom(e, 4)

CHECK_CODE_LETTERS == "ST"

CheckCodeEdits == Digit \cup CharsOf(CHECK_CODE_LETTERS)

\* The digit strings iso7064Mod9710 is stepped on: every digit string of up to
\* MaxShortLen digits, and the suffixes of every prepared example behind up
\* to MaxLeadingZeros zeros.
MaxShortLen == 3
MaxLeadingZeros == 2

RECURSIVE DigitStrings(_)
DigitStrings(n) ==
    IF n = 0 THEN {""} ELSE {s \o c : s \in DigitStrings(n - 1), c \in Digit}

RECURSIVE Zeros(_)
Zeros(n) == IF n = 0 THEN "" ELSE "0" \o Zeros(n - 1)

---------------------------------------------------------------------------
(* The state machine: one action per public function                       *)

NoCall == [op |-> "none", args |-> <<>>]

NoOutcome == [kind |-> "none"]

Init ==
    /\ cachedRegex = [k \in CountryCodes |-> undefined]
    /\ call = NoCall
    /\ outcome = NoOutcome
    /\ remainder = ""
    /\ block = ""

Completed(op, args, done) ==
    /\ call' = [op |-> op, args |-> args]
    /\ outcome' = done.completion
    /\ cachedRegex' = done.cachedRegex
    /\ UNCHANGED <<remainder, block>>

CallIsValid(iban) == Completed("isValid", <<iban>>, isValid(cachedRegex, iban))

CallToBBAN(iban, separator) ==
    Completed("toBBAN", <<iban, separator>>, toBBAN(cachedRegex, iban, separator))

CallFromBBAN(countryCode, bban) ==
    Completed("fromBBAN", <<countryCode, bban>>,
              fromBBAN(cachedRegex, countryCode, bban))

CallIsValidBBAN(countryCode, bban) ==
    Completed("isValidBBAN", <<countryCode, bban>>,
              isValidBBAN(cachedRegex, countryCode, bban))

\* Any sequence of calls on the instances of the called countries.
Next ==
    \/ \E iban \in IbanArgs : CallIsValid(iban)
    \/ \E iban \in IbanArgs, separator \in Separators : CallToBBAN(iban, separator)
    \/ \E countryCode \in Codes, bban \in BbanArgs : CallFromBBAN(countryCode, bban)
    \/ \E countryCode \in Codes, bban \in BbanArgs : CallIsValidBBAN(countryCode, bban)

Spec == Init /\ [][Next]_vars

\* Sequences of calls that differ in whether they reach the matcher: on an
\* example as registered and as printed, with one character too many, under
\* an unregistered country code; on its BBAN, whole and one character short.
LifecycleIbans ==
    UNION {{e, Grouped(e, " "), e \o "0", "ZZ" \o sliceFrom(e, 2)} : e \in CalledExamples}

LifecycleBbans == UNION {{sliceFrom(e, 4), sliceFrom(e, 5)} : e \in CalledExamples}

NextLifecycle ==
    \/ \E iban \in {Str(s) : s \in LifecycleIbans} \cup NonStrings : CallIsValid(iban)
    \/ \E iban \in {Str(s) : s \in LifecycleIbans} \cup NonStrings,
          separator \in {Str("-"), Omitted} : CallToBBAN(iban, separator)
    \/ \E countryCode \in Codes, bban \in {Str(s) : s \in LifecycleBbans} \cup NonStrings :
            CallFromBBAN(countryCode, bban)
    \/ \E countryCode \in Codes, bban \in {Str(s) : s \in LifecycleBbans} \cup NonStrings :
            CallIsValidBBAN(countryCode, bban)

SpecLifecycle == Init /\ [][NextLifecycle]_vars

\* The first call made after the registry has been built, on any instance.
FirstCall ==
    /\ call = NoCall
    /\ \/ \E e \in Examples : \E i \in 1..Len(e), c \in EditChars :
            CallIsValid(Str(Substitute(e, i, c)))
       \/ \E e \in Examples, a \in CheckCodeEdits, b \in CheckCodeEdits :
            CallIsValid(Str(CheckDigitEdit(e, a, b)))
       \/ \E iban \in NonStrings : CallIsValid(iban)
       \/ \E e \in Examples, separator \in Separators : CallToBBAN(Str(e), separator)
       \/ \E e \in Examples : \E i \in 5..Len(e), c \in EditChars :
            CallFromBBAN(slice(e, 0, 2), Str(sliceFrom(Substitute(e, i, c), 4)))
       \/ \E e \in Examples : CallIsValidBBAN(slice(e, 0, 2), Str(sliceFrom(e, 4)))

SpecFirstCall == Init /\ [][FirstCall]_vars

\* iso7064Mod9710 on its own, one pass through the loop body per step.
Running == [kind |-> "running"]

Mod9710Enter(iban) ==
    /\ call' = [op |-> "iso7064Mod9710", args |-> <<iban>>]
    /\ outcome' = Running
    /\ remainder' = iban
    /\ block' = ""
    /\ UNCHANGED cachedRegex

Mod9710Loop ==
    /\ outcome = Running
    /\ Len(remainder) > 2
    /\ block' = iso7064Mod9710Body(remainder).block
    /\ remainder' = iso7064Mod9710Body(remainder).remainder
    /\ UNCHANGED <<cachedRegex, call, outcome>>

Mod9710Exit ==
    /\ outcome = Running
    /\ ~(Len(remainder) > 2)
    /\ outcome' = Return(iso7064Mod9710Return(remainder))
    /\ UNCHANGED <<cachedRegex, call, remainder, block>>

NextMod9710 ==
    \/ /\ call = NoCall
       /\ \/ \E n \in 1..MaxShortLen : \E iban \in DigitStrings(n) : Mod9710Enter(iban)
          \/ \E e \in Examples : \E j \in 0..(Len(e) - 1), z \in 0..MaxLeadingZeros :
                Mod9710Enter(Zeros(z) \o sliceFrom(iso13616Prepare(e), j))
    \/ Mod9710Loop
    \/ Mod9710Exit

SpecMod9710 == Init /\ [][NextMod9710]_vars

\* The methods of Specification that reach iso7064Mod9710, called on an
\* instance directly and stepped through the reduction loop.  A direct call
\* is handed its string as it is: the characters put at offsets 2 and 3 of
\* an example, which no condition of isValid looks at before the checksum.
CHECK_CODE_CHARS == "0Z a-~"

CheckCodeChars == CharsOf(CHECK_CODE_CHARS)

\* Specification.isValid up to its call of iso7064Mod9710: length, country
\* code and structure have matched, and the prepared string is handed over.
ReductionEnterIsValid(key, iban) ==
    LET self == COUNTRIES[key]
        re == Specification_regex(self, cachedRegex[key])
    IN  /\ self.length = Len(iban)
        /\ self.countryCode = slice(iban, 0, 2)
        /\ re.completion.kind = "return"
        /\ test(re.completion.value, sliceFrom(iban, 4))
        /\ call' = [op |-> "Specification.isValid", args |-> <<key, iban>>]
        /\ outcome' = Running
        /\ remainder' = iso13616Prepare(iban)
        /\ block' = ""
        /\ cachedRegex' = [cachedRegex EXCEPT ![key] = re.cachedRegex]

\* Specification.fromBBAN up to its call of iso7064Mod9710: isValidBBAN has
\* accepted the BBAN.
ReductionEnterFromBBAN(key, bban) ==
    LET self == COUNTRIES[key]
        valid == Specification_isValidBBAN(self, cachedRegex[key], bban)
    IN  /\ valid.completion = Return(TRUE)
        /\ call' = [op |-> "Specification.fromBBAN", args |-> <<key, bban>>]
        /\ outcome' = Running
        /\ remainder' = iso13616Prepare(self.countryCode \o "00" \o bban)
        /\ block' = ""
        /\ cachedRegex' = [cachedRegex EXCEPT ![key] = valid.cachedRegex]

NextReduction ==
    \/ /\ call = NoCall
       /\ \/ \E key \in CountryCodes : \E a \in CheckCodeChars, b \in CheckCodeChars :
                ReductionEnterIsValid(key, CheckDigitEdit(COUNTRIES[key].example, a, b))
          \/ \E key \in CountryCodes :
                \E bban \in {sliceFrom(COUNTRIES[key].example, 4),
                             toLowerCase(sliceFrom(COUNTRIES[key].example, 4))} :
                    ReductionEnterFromBBAN(key, bban)
    \/ Mod9710Loop
    \/ Mod9710Exit

SpecReduction == Init /\ [][NextReduction]_vars

\* parseStructure on its own, on the descriptors a Specification can be
\* constructed with: up to MaxBlocks blocks of a class code and a 2-character
\* length, followed by up to 2 characters more.
CLASS_CODES == "FAUXf"
BLOCK_LENGTHS == <<"01", "02", "-1", "x2">>
MaxBlocks == 2

RECURSIVE Descriptors(_)
Descriptors(n) ==
    IF n = 0 THEN {""}
    ELSE {st \o code \o len : st \in Descriptors(n - 1),
                               code \in CharsOf(CLASS_CODES),
                               len \in {BLOCK_LENGTHS[i] : i \in 1..Len(BLOCK_LENGTHS)}}

CallParseStructure(structure) ==
    /\ call' = [op |-> "parseStructure", args |-> <<structure>>]
    /\ outcome' = parseStructure(structure)
    /\ UNCHANGED <<cachedRegex, remainder, block>>

NextParseStructure ==
    /\ call = NoCall
    /\ \E n \in 0..MaxBlocks : \E st \in Descriptors(n), rest \in {"", "F", "F0"} :
            CallParseStructure(st \o rest)

SpecParseStructure == Init /\ [][NextParseStructure]_vars

---------------------------------------------------------------------------
(* What the claims speak of, defined without the functions under check     *)

Alnum == Digit \cup UpperLetter \cup LowerLetter

\* The normal form of a string: its characters of [0-9A-Za-z], in upper case.
RECURSIVE NormalFormUpTo(_, _)
NormalFormUpTo(x, n) ==
    IF n = 0 THEN ""
    ELSE LET c == charAt(x, n)
         IN  NormalFormUpTo(x, n - 1)
             \o (IF c \notin Alnum THEN ""
                 ELSE IF c \in LowerLetter THEN charAt(UPPER, IndexIn(LOWER, c))
                 ELSE c)

NormalForm(x) == NormalFormUpTo(x, Len(x))

\* The characters a class code of a structure descriptor stands for.
ClassOf(code) ==
    CASE code = "A" -> Alnum
      [] code = "B" -> Digit \cup UpperLetter
      [] code = "C" -> UpperLetter \cup LowerLetter
      [] code = "F" -> Digit
      [] code = "L" -> LowerLetter
      [] code = "U" -> UpperLetter
      [] code = "W" -> Digit \cup LowerLetter

\* The blocks of a descriptor made of 3-character blocks: their number, the
\* class code and the stated length of the k-th, and the offset it starts at.
BlockCount(st) == Len(st) \div 3

BlockCode(st, k) == charAt(st, 3 * k - 2)

BlockLength(st, k) == 10 * DigitValue[charAt(st, 3 * k - 1)] + DigitValue[charAt(st, 3 * k)]

RECURSIVE BlockStart(_, _)
BlockStart(st, k) ==
    IF k = 1 THEN 0 ELSE BlockStart(st, k - 1) + BlockLength(st, k - 1)

\* b has the shape the descriptor st describes, whole and exactly.
FullyMatches(st, b) ==
    /\ Len(b) = BlockStart(st, BlockCount(st) + 1)
    /\ \A k \in 1..BlockCount(st) :
           \A p \in (BlockStart(st, k) + 1)..BlockStart(st, k + 1) :
               charAt(b, p) \in ClassOf(BlockCode(st, k))

\* The number written by the characters of s after the number acc, modulo
\* 97: a digit stands for itself, a letter for the two digits of 10..35.
RECURSIVE Mod97After(_, _, _)
Mod97After(acc, s, i) ==
    IF i > Len(s) THEN acc
    ELSE LET c == charAt(s, i)
         IN  Mod97After(IF c \in Digit THEN (10 * acc + DigitValue[c]) % 97
                        ELSE (100 * acc + 9 + IndexIn(UPPER, c)) % 97,
                        s, i + 1)

\* The remainder modulo 97 of the number an upper-case IBAN stands for once
\* its first 4 characters are moved behind the rest.
ChecksumOf(n) == Mod97After(Mod97After(0, sliceFrom(n, 4), 1), slice(n, 0, 4), 1)

\* The four conditions on a normalized IBAN.
WellFormed(n) ==
    LET cc == slice(n, 0, 2)
    IN  /\ cc \in CountryCodes
        /\ Len(n) = COUNTRIES[cc].length
        /\ FullyMatches(COUNTRIES[cc].structure, sliceFrom(n, 4))
        /\ ChecksumOf(n) = 1

IsValidIban(x) == isString(x) /\ WellFormed(NormalForm(x.val))

\* The shape check on a normalized BBAN b of country cc.
IsValidBban(cc, b) ==
    /\ Len(b) = COUNTRIES[cc].length - 4
    /\ FullyMatches(COUNTRIES[cc].structure, b)

\* The two-digit numeral of a number in 0..99.
TwoDigits(n) == charAt(DIGITS, (n \div 10) + 1) \o charAt(DIGITS, (n % 10) + 1)

\* A call of the model's functions that returns v.
Returns(done, v) == done.completion.kind = "return" /\ done.completion.value = v

---------------------------------------------------------------------------
(* The claims                                                              *)

\* C1: isValid(x) returns true exactly when x is a string whose normal form
\* starts with a registered country code, has that country's declared
\* length, matches its structure from offset 4 on and has checksum 1; it
\* returns false in every other case.
C1_IsValidIff ==
    call.op = "isValid" =>
        outcome.kind = "return" /\ outcome.value = IsValidIban(call.args[1])

\* isValid has accepted an IBAN that was not passed in its normal form.
C1_Witness ==
    /\ call.op = "isValid"
    /\ outcome = Return(TRUE)
    /\ NormalForm(call.args[1].val) # call.args[1].val

\* C2: for a registered country code and a BBAN of that country's shape,
\* fromBBAN returns country code, check code and BBAN, the check code being
\* 98 minus the checksum of the IBAN with check code 00, in two digits; the
\* result has checksum 1 and isValid accepts it.
C2_FromBBANIsValid ==
    (call.op = "fromBBAN" /\ isString(call.args[2]) /\ call.args[1] \in CountryCodes) =>
        LET cc == call.args[1]
            b == NormalForm(call.args[2].val)
        IN  IsValidBban(cc, b) =>
                /\ outcome.kind = "return"
                /\ outcome.value = cc \o TwoDigits(98 - ChecksumOf(cc \o "00" \o b)) \o b
                /\ ChecksumOf(outcome.value) = 1
                /\ Returns(isValid(cachedRegex, Str(outcome.value)), TRUE)

\* fromBBAN has generated a check code below 10, padded with a zero.
C2_Witness ==
    /\ call.op = "fromBBAN"
    /\ outcome.kind = "return"
    /\ charAt(outcome.value, 3) = "0"

\* C3: for a normalized IBAN s that isValid accepts, fromBBAN of its country
\* code and of its part from offset 4 returns s itself.
C3_RoundTrip ==
    (/\ call.op = "isValid"
     /\ outcome = Return(TRUE)
     /\ NormalForm(call.args[1].val) = call.args[1].val) =>
        LET s == call.args[1].val
        IN  Returns(fromBBAN(cachedRegex, slice(s, 0, 2), Str(sliceFrom(s, 4))), s)

\* C4: isValid and isValidBBAN raise no error; whatever fails (an argument
\* that is no string, an unregistered country code, a shape that does not
\* match, a wrong checksum), they return false.
C4_PredicatesNeverRaise ==
    /\ call.op = "isValid" =>
            /\ outcome.kind = "return"
            /\ ~IsValidIban(call.args[1]) => outcome.value = FALSE
    /\ call.op = "isValidBBAN" =>
            /\ outcome.kind = "return"
            /\ ~(/\ isString(call.args[2])
                 /\ call.args[1] \in CountryCodes
                 /\ IsValidBban(call.args[1], NormalForm(call.args[2].val)))
                    => outcome.value = FALSE

\* C5: toBBAN and fromBBAN throw when the country code is not registered
\* (for toBBAN the first two characters of the normalized IBAN), and when
\* the shape does not match: fromBBAN for a normalized BBAN that is not of
\* the country's length and structure, toBBAN for a normalized IBAN whose
\* part from offset 4 does not match the structure.
C5_ConversionsRaise ==
    /\ (call.op = "toBBAN" /\ isString(call.args[1])) =>
            LET n == NormalForm(call.args[1].val)
                cc == slice(n, 0, 2)
            IN  /\ cc \notin CountryCodes =>
                        /\ outcome.kind = "throw"
                        /\ outcome.error = "No country with code " \o cc
                /\ (/\ cc \in CountryCodes
                    /\ ~FullyMatches(COUNTRIES[cc].structure, sliceFrom(n, 4))) =>
                        outcome.kind = "throw" /\ outcome.error = "Invalid IBAN"
    /\ (call.op = "fromBBAN" /\ isString(call.args[2])) =>
            LET cc == call.args[1]
                b == NormalForm(call.args[2].val)
            IN  /\ cc \notin CountryCodes =>
                        /\ outcome.kind = "throw"
                        /\ outcome.error = "No country with code " \o cc
                /\ (cc \in CountryCodes /\ ~IsValidBban(cc, b)) =>
                        outcome.kind = "throw" /\ outcome.error = "Invalid BBAN"

\* toBBAN has thrown for an IBAN of a registered country whose part from
\* offset 4 does not match the structure.
C5_Witness ==
    /\ call.op = "toBBAN"
    /\ outcome.kind = "throw"
    /\ outcome.error = "Invalid IBAN"
    /\ slice(NormalForm(call.args[1].val), 0, 2) \in CountryCodes

\* C6: toBBAN throws for every IBAN that isValid does not accept.
C6_ToBBANThrowsOnInvalid ==
    (call.op = "toBBAN" /\ ~IsValidIban(call.args[1])) => outcome.kind = "throw"

\* C7: when the part from offset 4 of the normalized IBAN matches the
\* structure, toBBAN returns one substring per block, in block order, each
\* of its block's length and equal to that stretch of the part, with the
\* separator between two neighbours and nothing else; a separator left out
\* is one blank.
C7_ToBBANBlocks ==
    (call.op = "toBBAN" /\ isString(call.args[1])) =>
        LET n == NormalForm(call.args[1].val)
            cc == slice(n, 0, 2)
            bban == sliceFrom(n, 4)
            sep == IF call.args[2] = Omitted THEN " " ELSE call.args[2].val
        IN  (cc \in CountryCodes /\ FullyMatches(COUNTRIES[cc].structure, bban)) =>
                LET st == COUNTRIES[cc].structure
                    At(k) == BlockStart(st, k) + (k - 1) * Len(sep)
                IN  /\ outcome.kind = "return"
                    /\ Len(outcome.value) = Len(bban) + (BlockCount(st) - 1) * Len(sep)
                    /\ \A k \in 1..BlockCount(st) :
                           slice(outcome.value, At(k), At(k) + BlockLength(st, k))
                             = slice(bban, BlockStart(st, k), BlockStart(st, k + 1))
                    /\ \A k \in 1..(BlockCount(st) - 1) :
                           slice(outcome.value, At(k) + BlockLength(st, k), At(k + 1)) = sep

\* toBBAN has split the printed Belgian example at hyphens.
C7_Witness ==
    /\ call = [op |-> "toBBAN", args |-> <<Str("BE68 5390 0754 7034"), Str("-")>>]
    /\ outcome = Return("539-0075470-34")

\* s and e have the same length and differ in one place, by a digit for a digit.
OneDigitApart(s, e) ==
    /\ Len(s) = Len(e)
    /\ Cardinality({i \in 1..Len(e) : charAt(s, i) # charAt(e, i)}) = 1
    /\ \A i \in 1..Len(e) :
           charAt(s, i) # charAt(e, i) => charAt(s, i) \in Digit /\ charAt(e, i) \in Digit

\* C8: once isValid has accepted a string, it rejects that string with any
\* one of its decimal digits replaced by another digit; and it rejects a
\* registered example with one digit, the last one included, replaced.
C8_ChecksumSensitive ==
    (call.op = "isValid" /\ isString(call.args[1])) =>
        LET s == call.args[1].val
            cc == slice(s, 0, 2)
        IN  /\ outcome = Return(TRUE) =>
                   \A i \in 1..Len(s) :
                       charAt(s, i) \in Digit =>
                           \A d \in Digit \ {charAt(s, i)} :
                               Returns(isValid(cachedRegex, Str(Substitute(s, i, d))), FALSE)
            /\ (cc \in CountryCodes /\ OneDigitApart(s, COUNTRIES[cc].example)) =>
                   outcome = Return(FALSE)

\* isValid has rejected a registered example with its last digit replaced.
C8_Witness ==
    /\ call.op = "isValid"
    /\ isString(call.args[1])
    /\ outcome = Return(FALSE)
    /\ LET s == call.args[1].val
           cc == slice(s, 0, 2)
       IN  /\ cc \in CountryCodes
           /\ OneDigitApart(s, COUNTRIES[cc].example)
           /\ charAt(s, Len(s)) # charAt(COUNTRIES[cc].example, Len(s))

\* C9: isValid accepts the example of every registry entry: the example
\* starts with the entry's country code, which is its key, has the declared
\* length, matches the structure from offset 4 on and has checksum 1.
C9_ExamplesValid ==
    (call.op = "isValid" /\ isString(call.args[1]) /\ call.args[1].val \in Examples) =>
        /\ outcome = Return(TRUE)
        /\ \A k \in CountryCodes :
               COUNTRIES[k].example = call.args[1].val =>
                   /\ COUNTRIES[k].countryCode = k
                   /\ slice(COUNTRIES[k].example, 0, 2) = k
                   /\ Len(COUNTRIES[k].example) = COUNTRIES[k].length
                   /\ FullyMatches(COUNTRIES[k].structure, sliceFrom(COUNTRIES[k].example, 4))
                   /\ ChecksumOf(COUNTRIES[k].example) = 1

\* isValid has accepted the example of an entry whose BBAN holds letters.
C9_Witness ==
    /\ call = [op |-> "isValid", args |-> <<Str(COUNTRIES["MT"].example)>>]
    /\ outcome = Return(TRUE)

\* C10: iso7064Mod9710 of a non-empty digit string, leading zeros or not,
\* is the number it writes modulo 97, a number in 0..96; every pass keeps
\* that remainder, and every block it converts has at most 9 digits.
C10_Mod9710 ==
    call.op = "iso7064Mod9710" =>
        /\ Len(block) <= 9
        /\ block # "" => parseInt(block) \in 0..(10^9 - 1)
        /\ Mod97After(0, remainder, 1) = Mod97After(0, call.args[1], 1)
        /\ outcome.kind = "return" =>
               /\ outcome.value = Mod97After(0, call.args[1], 1)
               /\ outcome.value \in 0..96

\* The reduction has returned for a string of more than two blocks that
\* starts with a zero.
C10_Witness ==
    /\ call.op = "iso7064Mod9710"
    /\ outcome.kind = "return"
    /\ Len(call.args[1]) > 2 * BlockSize
    /\ charAt(call.args[1], 1) = "0"
    /\ Len(block) = BlockSize

\* C11: the reduction terminates for every string that Specification.isValid
\* or Specification.fromBBAN hands to it, whatever stands at offsets 2 and 3:
\* whenever the loop is about to run its body, that pass leaves `remainder`
\* strictly shorter, so the loop stops at a length of at most 2.
C11_ReductionShortens ==
    (/\ call.op \in {"Specification.isValid", "Specification.fromBBAN"}
     /\ outcome = Running
     /\ Len(remainder) > 2) =>
        Len(iso7064Mod9710Body(remainder).remainder) < Len(remainder)

\* C12: parseStructure throws, and returns no matcher, for a descriptor
\* with a block whose class code is none of A, B, C, F, L, U, W, and for a
\* descriptor whose length is no multiple of 3.
C12_ParseStructureRejects ==
    call.op = "parseStructure" =>
        LET st == call.args[1]
        IN  (\/ Len(st) % 3 # 0
             \/ \E k \in 1..(Len(st) \div 3) :
                    charAt(st, 3 * k - 2) \notin CharsOf("ABCFLUW")) =>
                outcome.kind = "throw"

\* The matcher each instance's structure descriptor compiles to.
CompiledMatchers ==
    [k \in CountryCodes |-> parseStructure(COUNTRIES[k].structure).value]

\* The instances on which the call c reaches this.regex(), none or one: its
\* arguments get past the string check, the registry lookup and the length
\* comparison that the method makes before it asks for the matcher.
NeedsMatcherOf(c) ==
    CASE c.op = "isValid" /\ isString(c.args[1]) ->
            LET n == NormalForm(c.args[1].val)
            IN  {k \in {slice(n, 0, 2)} \cap CountryCodes : Len(n) = COUNTRIES[k].length}
      [] c.op = "toBBAN" /\ isString(c.args[1]) ->
            {slice(NormalForm(c.args[1].val), 0, 2)} \cap CountryCodes
      [] c.op \in {"fromBBAN", "isValidBBAN"} /\ isString(c.args[2]) ->
            {k \in {c.args[1]} \cap CountryCodes :
                Len(NormalForm(c.args[2].val)) = COUNTRIES[k].length - 4}
      [] OTHER -> {}

\* The caches the other way round: compiled where cache is uncompiled,
\* uncompiled where it is compiled.
Flipped(cache) ==
    [k \in CountryCodes |->
        IF cache[k] = undefined THEN CompiledMatchers[k] ELSE undefined]

\* The call c made on instances whose caches are as in cache.
Apply(c, cache) ==
    CASE c.op = "isValid" -> isValid(cache, c.args[1])
      [] c.op = "toBBAN" -> toBBAN(cache, c.args[1], c.args[2])
      [] c.op = "fromBBAN" -> fromBBAN(cache, c.args[1], c.args[2])
      [] c.op = "isValidBBAN" -> isValidBBAN(cache, c.args[1], c.args[2])

\* C13: every instance's cache starts uncompiled; a call compiles the cache
\* of an instance exactly when the cache is uncompiled and the call needs
\* that instance's matcher, and leaves a compiled cache as it is; a compiled
\* cache is the compilation of the instance's structure descriptor; and the
\* call completes as it would have with every compiled cache uncompiled and
\* every uncompiled cache compiled.  (The other fields of an instance are the
\* record COUNTRIES[k], which no method is given the means to change.)
C13_CacheLifecycle ==
    /\ \A k \in CountryCodes : cachedRegex[k] = undefined
    /\ [](\A k \in CountryCodes : cachedRegex[k] \in {undefined, CompiledMatchers[k]})
    /\ [][/\ \A k \in CountryCodes \ NeedsMatcherOf(call') :
                    cachedRegex'[k] = cachedRegex[k]
          /\ \A k \in NeedsMatcherOf(call') :
                    cachedRegex'[k] = IF cachedRegex[k] # undefined THEN cachedRegex[k]
                                      ELSE CompiledMatchers[k]
          /\ outcome' = Apply(call', Flipped(cachedRegex)).completion]_vars

\* Two instances have been compiled, by different calls, and the last call
\* has split an IBAN with the matcher of one of them.
C13_Witness ==
    /\ cachedRegex["BE"] = CompiledMatchers["BE"]
    /\ cachedRegex["NL"] = CompiledMatchers["NL"]
    /\ call.op = "toBBAN"
    /\ outcome.kind = "return"

\* C14: whenever isValid returns true, the characters at offsets 2 and 3 of
\* the normalized IBAN, its check code, are both decimal digits.
C14_CheckCodeIsDigits ==
    (call.op = "isValid" /\ outcome = Return(TRUE)) =>
        LET n == NormalForm(call.args[1].val)
        IN  charAt(n, 3) \in Digit /\ charAt(n, 4) \in Digit

====
